---- MODULE Spec2Model ----
(***************************************************************************)
(* Medical Telegram Warehouse: the Dagster job (pipeline.py), the raw      *)
(* loader (scripts/load_to_postgres.py) and the YOLO results loader        *)
(* (scripts/load_yolo_results.py), as state machines over the two          *)
(* warehouse tables raw.telegram_messages and raw.yolo_detections.         *)
(***************************************************************************)
EXTENDS Integers, Sequences, FiniteSets, TLC

(***************************************************************************)
(* Values.  Python None / SQL NULL is NULL in text columns and NullInt in  *)
(* integer columns; JSON booleans are the strings "true" and "false".      *)
(***************************************************************************)
NULL == "NULL"
NullInt == 0 - 1

\* Bounds of the model.
MaxBatchLen == 2
MaxLoaderRuns == 2
MaxSnapLen == 2
MaxYoloRuns == 2
MaxPolicyRetries == 2
MaxDetections == 2
MaxImages == 3

\* execute_batch's page_size, 1000 at line 150 of scripts/load_to_postgres.py,
\* scaled down so that a batch of MaxBatchLen messages spans more than one page.
page_size == 1

\* The tail of result.stdout that goes into an event, 500 characters in
\* pipeline.py, scaled down, and the longest output of a command.
tail_length == 2
MaxOutputLen == 3

NoLoad == <<>>
NoFile == <<>>
NoTxn == <<>>

VARIABLES
    \* the data lake: batch file <<date, stem>> -> its list of messages
    datalake,
    \* raw.telegram_messages as committed: a set of rows
    raw_table,
    \* the raw loader process: position, connection, file list, loop index,
    \* total_messages, exit status; raw_runs counts its invocations
    raw_pc, raw_conn, json_files, file_idx, total_messages, raw_exit, raw_runs,
    \* history: natural key -> Record of the last committed statement for it
    expected,
    \* history: <<messages, channel_name>> of the last committed insert_messages
    last_load,
    \* history: batch file -> the number of committed insert_messages calls on it
    load_count,
    \* data/processed/yolo_detections.csv: NoFile, or <<its rows>>
    yolo_csv,
    \* raw.yolo_detections as committed (what every other session reads)
    yolo_table,
    \* the loader's open transaction: NoTxn, or <<its view of the table>>
    yolo_txn,
    \* the YOLO loader process: position, connection, rows, next row to insert,
    \* returned count, exit status; yolo_runs counts its invocations
    yolo_pc, yolo_conn, yolo_rows, yolo_next, yolo_count, yolo_exit, yolo_runs,
    \* history: the committed table when the current invocation started
    yolo_before,
    \* history: the results of the last run of src/yolo_detect.py that got as far
    \* as save_results_to_csv, one per attachment it found
    yolo_results,
    \* datetime.now() and CURRENT_TIMESTAMP, as a counter
    clock,
    \* the Dagster run: its status, each op's status, attempt number, output and
    \* the exit status of its primary command, the materialization events, the
    \* retry policies, and the position inside the body of the running op
    run_status, stage_status, attempt, op_pc, token, primary_exit, events,
    max_retries,
    \* what each op's primary command prints in this run (result.stdout), and the
    \* exit status of the auxiliary command of each op's last attempt
    stdout, aux_returncode,
    \* process_image and classify_image of src/yolo_detect.py: the detections of the
    \* last image processed, what classify_image returned for them, the result
    \* dictionary built from both, and (history) one earlier call with its outcome
    call_detections, category, class_confidences, result, remembered,
    \* main of src/yolo_detect.py: its position, the images found, the loop index,
    \* results, error_count, the exit status and the CSV file it writes, and
    \* (history) for each image processed whether the model call raised
    detect_pc, detect_images, detect_idx, detect_results, error_count, detect_exit,
    detect_csv, detect_raised

rawVars == <<datalake, raw_table, raw_pc, raw_conn, json_files, file_idx,
             total_messages, raw_exit, raw_runs, expected, last_load, load_count>>

yoloVars == <<yolo_csv, yolo_table, yolo_txn, yolo_pc, yolo_conn, yolo_rows,
              yolo_next, yolo_count, yolo_exit, yolo_runs, yolo_before,
              yolo_results>>

pipeVars == <<run_status, stage_status, attempt, op_pc, token, primary_exit,
              events, max_retries, stdout, aux_returncode>>

detectVars == <<detect_pc, detect_images, detect_idx, detect_results, error_count,
                detect_exit, detect_csv, detect_raised>>

classVars == <<call_detections, category, class_confidences, result, remembered,
               detectVars>>

vars == <<rawVars, yoloVars, clock, pipeVars, classVars>>

(***************************************************************************)
(* scripts/load_to_postgres.py                                             *)
(***************************************************************************)

\* dict.get(key, default)
Get(msg, key, default) == IF key \in DOMAIN msg THEN msg[key] ELSE default

\* str.replace('Z', '+00:00') on the date strings of the model.
ReplaceZ(s) ==
    IF s = "2024-01-06T09:30:00Z" THEN "2024-01-06T09:30:00+00:00" ELSE s

\* The date strings datetime.fromisoformat accepts.
IsIsoFormat(s) == s \in {"2024-01-05T10:00:00", "2024-01-06T09:30:00+00:00"}

\* datetime.fromisoformat(s): the timestamp of an accepted string.
FromIsoFormat(s) ==
    IF s = "2024-01-05T10:00:00" THEN "ts:2024-01-05 10:00:00"
    ELSE "ts:2024-01-06 09:30:00+00"

\* Faulty variant: a date string that does not parse is stored as it is.
ParseMessageDateKeepsText(msg) ==
    LET raw == Get(msg, "message_date", NULL)
    IN  IF raw = NULL \/ raw = "" THEN NULL
        ELSE IF IsIsoFormat(ReplaceZ(raw)) THEN FromIsoFormat(ReplaceZ(raw))
        ELSE raw

\* Lines 113-118: message_date stays None unless the field is truthy and parses.
ParseMessageDate(msg) ==
    LET raw == Get(msg, "message_date", NULL)
    IN  IF raw = NULL \/ raw = "" THEN NULL
        ELSE IF IsIsoFormat(ReplaceZ(raw)) THEN FromIsoFormat(ReplaceZ(raw))
        ELSE NULL

\* msg.get('channel_name') or channel_name
ChannelOf(msg, channel_name) ==
    LET c == Get(msg, "channel_name", NULL)
    IN  IF c = NULL \/ c = "" THEN channel_name ELSE c

\* Lines 120-130: the tuple appended to insert_data for one message.
InsertTuple(msg, channel_name, now) ==
    [message_id   |-> Get(msg, "message_id", NullInt),
     channel_name |-> ChannelOf(msg, channel_name),
     message_date |-> ParseMessageDate(msg),
     message_text |-> Get(msg, "message_text", NULL),
     has_media    |-> Get(msg, "has_media", "false"),
     image_path   |-> Get(msg, "image_path", NULL),
     views        |-> Get(msg, "views", NullInt),
     forwards     |-> Get(msg, "forwards", NullInt),
     loaded_at    |-> now]

\* Lines 110-130: insert_data, one tuple per message, in order.
InsertData(messages, channel_name, now) ==
    [i \in 1..Len(messages) |-> InsertTuple(messages[i], channel_name, now)]

\* PRIMARY KEY (message_id, channel_name)
KeyOf(row) == <<row.message_id, row.channel_name>>

\* message_id BIGINT NOT NULL (channel_name is never None: the file stem stands in).
ViolatesNotNull(t) == t.message_id = NullInt

\* Faulty variant: ON CONFLICT (message_id, channel_name) DO NOTHING.
UpsertRowDoNothing(table, t) ==
    IF \E r \in table : KeyOf(r) = KeyOf(t) THEN table ELSE table \cup {t}

\* Faulty variant: a plain INSERT into a table without its primary key.
UpsertRowAppend(table, t) == table \cup {t}

\* One INSERT ... ON CONFLICT (message_id, channel_name) DO UPDATE SET every column.
UpsertRow(table, t) ==
    {r \in table : KeyOf(r) # KeyOf(t)} \cup {t}

\* execute_batch sends the statements in pages of page_size; they run one after
\* another, in the order of insert_data.
RECURSIVE ExecutePage(_, _)
ExecutePage(table, page) ==
    IF page = <<>> THEN table
    ELSE ExecutePage(UpsertRow(table, Head(page)), Tail(page))

RECURSIVE ExecuteBatch(_, _)
ExecuteBatch(table, data) ==
    IF data = <<>> THEN table
    ELSE IF Len(data) <= page_size THEN ExecutePage(table, data)
    ELSE ExecuteBatch(ExecutePage(table, SubSeq(data, 1, page_size)),
                      SubSeq(data, page_size + 1, Len(data)))

\* A statement of the batch raises (the transaction is then rolled back).
BatchRaises(data) == \E i \in 1..Len(data) : ViolatesNotNull(data[i])

\* The statements that ran before the exception: those before the first one that
\* raises, or all of them when the server or the link fails afterwards.
RanBefore(data) ==
    IF BatchRaises(data)
    THEN SubSeq(data, 1, (CHOOSE i \in 1..Len(data) :
                             /\ ViolatesNotNull(data[i])
                             /\ \A j \in 1..(i - 1) : ~ViolatesNotNull(data[j])) - 1)
    ELSE data

\* Faulty variant: the statements that ran stay in the table.
AfterRollbackKeepsWork(committed, work) == work

\* conn.rollback(), line 155: the statements of the open transaction are undone.
AfterRollback(committed, work) == committed

\* The Record fields of a row: every column but loaded_at.
RecordOf(row) ==
    [message_id   |-> row.message_id,
     channel_name |-> row.channel_name,
     message_date |-> row.message_date,
     message_text |-> row.message_text,
     has_media    |-> row.has_media,
     image_path   |-> row.image_path,
     views        |-> row.views,
     forwards     |-> row.forwards]

\* The messages the model draws batch files from (scraper.py extract_message_data
\* shapes, plus hand-written files: a missing key, an empty channel, a bad date).
FullMsg(id, ch, date, text, media, img, views, fwd) ==
    [message_id |-> id, channel_name |-> ch, message_date |-> date,
     message_text |-> text, has_media |-> media, image_path |-> img,
     views |-> views, forwards |-> fwd]

MsgA == FullMsg(1, "chB", "2024-01-05T10:00:00", "A", "true", "data/raw/images/chB/1.jpg", 10, 1)
MsgB == FullMsg(1, "chB", "05/01/2024", "B", "false", NULL, NullInt, NullInt)
MsgC == [message_id |-> 2, channel_name |-> "", message_date |-> "2024-01-06T09:30:00Z",
         message_text |-> NULL, views |-> 7]
MsgNoId == [channel_name |-> "chA", message_text |-> "E"]

Messages == {MsgA, MsgB, MsgC, MsgNoId}

\* The batch files of the model: data/raw/telegram_messages/<date>/<stem>.json.
Files == {<<"2024-01-05", "chA">>, <<"2024-01-06", "chA">>}

\* Non-empty message lists of at most MaxBatchLen messages.
Batches == UNION {[1..n -> Messages] : n \in 1..MaxBatchLen}

\* The sequences that list every element of S once (the orders rglob may return).
Orders(S) ==
    {s \in [1..Cardinality(S) -> S] : \A i, j \in DOMAIN s : i # j => s[i] # s[j]}

\* The data lakes of the model: some of Files, each holding a batch.
DataLakes == UNION {[fs -> Batches] : fs \in SUBSET Files}

RawInit ==
    /\ raw_table = {}
    /\ raw_pc = "idle"
    /\ raw_conn = "none"
    /\ json_files = <<>>
    /\ file_idx = 0
    /\ total_messages = 0
    /\ raw_exit = NullInt
    /\ raw_runs = 0
    /\ clock = 0
    /\ expected = <<>>
    /\ last_load = NoLoad
    /\ load_count = <<>>

\* python scripts/load_to_postgres.py is started.
StartRawLoader ==
    /\ raw_pc \in {"idle", "exited"}
    /\ raw_pc' = "connect"
    /\ raw_conn' = "none"
    /\ json_files' = <<>>
    /\ file_idx' = 0
    /\ total_messages' = 0
    /\ raw_exit' = NullInt
    /\ raw_runs' = raw_runs + 1
    /\ UNCHANGED <<datalake, raw_table, clock, expected, last_load, load_count>>

\* main, lines 174-181: psycopg2.connect; on failure the error is logged and main
\* returns, so the process ends with exit status 0.
RawConnect(connected) ==
    /\ raw_pc = "connect"
    /\ IF connected
       THEN /\ raw_conn' = "open"
            /\ raw_pc' = "schema"
            /\ UNCHANGED raw_exit
       ELSE /\ raw_conn' = "refused"
            /\ raw_pc' = "exited"
            /\ raw_exit' = 0
    /\ UNCHANGED <<datalake, raw_table, json_files, file_idx, total_messages,
                   raw_runs, clock, expected, last_load, load_count>>
    /\ UNCHANGED <<yoloVars, pipeVars>>
    /\ UNCHANGED classVars

\* main, lines 183-185 and 224-229: create_raw_schema; an exception is logged and
\* re-raised, the finally clause closes the connection, the process exits 1.
CreateRawSchema(ok) ==
    /\ raw_pc = "schema"
    /\ IF ok
       THEN /\ raw_pc' = "files"
            /\ UNCHANGED <<raw_conn, raw_exit>>
       ELSE /\ raw_pc' = "exited"
            /\ raw_conn' = "closed"
            /\ raw_exit' = 1
    /\ UNCHANGED <<datalake, raw_table, json_files, file_idx, total_messages,
                   raw_runs, clock, expected, last_load, load_count>>
    /\ UNCHANGED <<yoloVars, pipeVars>>
    /\ UNCHANGED classVars

\* main, lines 187-193, with get_json_files: rglob lists the files in some order;
\* with no file main returns (exit 0) through the finally clause.
GetJsonFiles(order) ==
    /\ raw_pc = "files"
    /\ order \in Orders(DOMAIN datalake)
    /\ json_files' = order
    /\ IF order = <<>>
       THEN /\ raw_pc' = "exited"
            /\ raw_conn' = "closed"
            /\ raw_exit' = 0
            /\ UNCHANGED file_idx
       ELSE /\ raw_pc' = "loop"
            /\ file_idx' = 1
            /\ UNCHANGED <<raw_conn, raw_exit>>
    /\ UNCHANGED <<datalake, raw_table, total_messages, raw_runs, clock,
                   expected, last_load, load_count>>
    /\ UNCHANGED <<yoloVars, pipeVars>>
    /\ UNCHANGED classVars

\* insert_messages, lines 103-157: the new table, the returned count and whether
\* the call raised.  db_error is a failure of the server or the link during the
\* batch.  On an exception the transaction is rolled back and nothing is returned.
InsertMessages(table, messages, channel_name, now, db_error) ==
    LET data == InsertData(messages, channel_name, now)
    IN  IF messages = <<>>
        THEN [table |-> table, count |-> 0, raised |-> FALSE]
        ELSE IF db_error \/ BatchRaises(data)
        THEN [table |-> AfterRollback(table, ExecuteBatch(table, RanBefore(data))),
              count |-> 0, raised |-> TRUE]
        ELSE [table |-> ExecuteBatch(table, data), count |-> Len(data),
              raised |-> FALSE]

\* History: the Record the last committed statement wrote for each natural key.
RECURSIVE ExpectedAfter(_, _)
ExpectedAfter(exp, data) ==
    IF data = <<>> THEN exp
    ELSE ExpectedAfter((KeyOf(Head(data)) :> RecordOf(Head(data))) @@ exp, Tail(data))

\* main, lines 197-209: one turn of the loop over json_files.  channel_name is the
\* file's stem; an exception of insert_messages leaves main through the except and
\* finally clauses (connection closed, exit status 1).
LoadFile(db_error) ==
    /\ raw_pc = "loop"
    /\ LET file == json_files[file_idx]
           messages == datalake[file]
           channel_name == file[2]
           res == InsertMessages(raw_table, messages, channel_name, clock + 1, db_error)
       IN  /\ clock' = clock + 1
           /\ IF res.raised
              THEN /\ raw_pc' = "exited"
                   /\ raw_conn' = "closed"
                   /\ raw_exit' = 1
                   /\ raw_table' = res.table
                   /\ UNCHANGED <<total_messages, file_idx, expected, last_load,
                                  load_count>>
              ELSE /\ raw_table' = res.table
                   /\ total_messages' = total_messages + res.count
                   /\ expected' = ExpectedAfter(expected,
                                      InsertData(messages, channel_name, clock + 1))
                   /\ last_load' = <<messages, channel_name>>
                   /\ load_count' = (file :> Get(load_count, file, 0) + 1) @@ load_count
                   /\ IF file_idx < Len(json_files)
                      THEN file_idx' = file_idx + 1 /\ raw_pc' = "loop"
                      ELSE file_idx' = file_idx /\ raw_pc' = "summary"
                   /\ UNCHANGED <<raw_conn, raw_exit>>
    /\ UNCHANGED <<datalake, json_files, raw_runs>>
    /\ UNCHANGED <<yoloVars, pipeVars>>
    /\ UNCHANGED classVars

\* main, lines 211-229: the summary, then the finally clause closes the connection.
Summary ==
    /\ raw_pc = "summary"
    /\ raw_pc' = "exited"
    /\ raw_conn' = "closed"
    /\ raw_exit' = 0
    /\ UNCHANGED <<datalake, raw_table, json_files, file_idx, total_messages,
                   raw_runs, clock, expected, last_load, load_count>>
    /\ UNCHANGED <<yoloVars, pipeVars>>
    /\ UNCHANGED classVars

(***************************************************************************)
(* src/yolo_detect.py save_results_to_csv and scripts/load_yolo_results.py *)
(***************************************************************************)

\* A result dictionary of process_image (confidences in hundredths).
Result(id, ch, img, n, classes, top, conf, cat, confs) ==
    [message_id |-> id, channel_name |-> ch, image_path |-> img,
     detected_objects_count |-> n, detected_classes |-> classes,
     top_detected_class |-> top, top_confidence |-> conf,
     image_category |-> cat, all_confidences |-> confs]

ResPromo == Result(1, "chA", "data/raw/images/chA/1.jpg", 2, "0,39", "person", 90,
                   "promotional", "{0: 0.9, 39: 0.5}")
ResOther == Result(2, "chA", "data/raw/images/chA/2.jpg", 0, "", NULL, 0, "other", "{}")
ResPng == Result(1, "chA", "data/raw/images/chA/1.png", 1, "39", "bottle", 50,
                 "product_display", "{39: 0.5}")

Results == {ResPromo, ResOther, ResPng}

\* Result lists of at most MaxSnapLen results.
ResultLists == UNION {[1..n -> Results] : n \in 0..MaxSnapLen}

\* csv.DictWriter: None is written as the empty string, a number as its digits
\* (<<n>> is the cell holding the digits of n, <<>> an empty numeric cell).
CsvText(v) == IF v = NULL THEN "" ELSE v

ToCsvRow(res) ==
    [message_id |-> <<res.message_id>>,
     channel_name |-> CsvText(res.channel_name),
     image_path |-> CsvText(res.image_path),
     detected_objects_count |-> <<res.detected_objects_count>>,
     detected_classes |-> CsvText(res.detected_classes),
     top_detected_class |-> CsvText(res.top_detected_class),
     top_confidence |-> <<res.top_confidence>>,
     image_category |-> CsvText(res.image_category),
     all_confidences |-> CsvText(res.all_confidences)]

\* x or None
OrNone(cell) == IF cell = "" THEN NULL ELSE cell

\* int(x) if x else 0, float(x) if x else 0.0
NumberOr0(cell) == IF cell = <<>> THEN 0 ELSE cell[1]

\* load_yolo_results, line 99: int('') raises ValueError.
RowRaises(row) == row.message_id = <<>>

\* load_yolo_results, lines 98-108: the tuple built from one CSV row.
ParseRow(row) ==
    [message_id |-> row.message_id[1],
     channel_name |-> row.channel_name,
     image_path |-> row.image_path,
     detected_objects_count |-> NumberOr0(row.detected_objects_count),
     detected_classes |-> OrNone(row.detected_classes),
     top_detected_class |-> OrNone(row.top_detected_class),
     top_confidence |-> NumberOr0(row.top_confidence),
     image_category |-> row.image_category,
     all_confidences |-> OrNone(row.all_confidences)]

\* A row of raw.yolo_detections: the tuple and loaded_at (CURRENT_TIMESTAMP).
YoloRow(t, now) ==
    [message_id |-> t.message_id, channel_name |-> t.channel_name,
     image_path |-> t.image_path,
     detected_objects_count |-> t.detected_objects_count,
     detected_classes |-> t.detected_classes,
     top_detected_class |-> t.top_detected_class,
     top_confidence |-> t.top_confidence,
     image_category |-> t.image_category,
     all_confidences |-> t.all_confidences,
     loaded_at |-> now]

\* The DetectionResult fields of a table row: every column but loaded_at.
DetectionOf(r) ==
    [message_id |-> r.message_id, channel_name |-> r.channel_name,
     image_path |-> r.image_path,
     detected_objects_count |-> r.detected_objects_count,
     detected_classes |-> r.detected_classes,
     top_detected_class |-> r.top_detected_class,
     top_confidence |-> r.top_confidence,
     image_category |-> r.image_category,
     all_confidences |-> r.all_confidences]

\* Faulty variant: the TRUNCATE is left out.
TruncateNothing(table) == table

\* TRUNCATE TABLE raw.yolo_detections
TruncateTable(table) == {}

\* Faulty variant: ON CONFLICT (message_id, channel_name) DO NOTHING.
UpsertYoloRowDoNothing(table, t, now) ==
    IF \E r \in table : KeyOf(r) = KeyOf(t) THEN table
    ELSE table \cup {YoloRow(t, now)}

\* INSERT ... ON CONFLICT (message_id, channel_name) DO UPDATE SET every column.
UpsertYoloRow(table, t, now) ==
    {r \in table : KeyOf(r) # KeyOf(t)} \cup {YoloRow(t, now)}

\* The table a complete load of `rows` leaves: for each key its last row.
SnapshotTable(rows, now) ==
    {YoloRow(rows[i], now) : i \in {j \in 1..Len(rows) :
        \A k \in (j + 1)..Len(rows) : KeyOf(rows[k]) # KeyOf(rows[j])}}

\* Faulty variant: conn.autocommit = True, every statement is committed at once.
AfterStatementAutocommit(committed, work) == work

\* psycopg2 opens a transaction at the first statement and autocommit is off: a
\* statement changes the transaction's view of the table, not the committed table.
AfterStatement(committed, work) == committed

\* conn.commit(), line 129
AfterCommit(committed, work) == work

\* Faulty variant: the statements of the dropped transaction stay in the table.
AfterAbortKeepsWork(committed, work) == work

\* The process ends with the transaction open: the server rolls it back.
AfterAbort(committed, work) == committed

YoloInit ==
    /\ yolo_csv = NoFile
    /\ yolo_table = {}
    /\ yolo_txn = NoTxn
    /\ yolo_pc = "idle"
    /\ yolo_conn = "none"
    /\ yolo_rows = <<>>
    /\ yolo_next = 0
    /\ yolo_count = NullInt
    /\ yolo_exit = NullInt
    /\ yolo_runs = 0
    /\ yolo_before = {}
    /\ yolo_results = <<>>

\* yolo_detect.py save_results_to_csv, lines 205-238: the CSV file afterwards.  With
\* no result nothing is written and the file of an earlier run stays as it is.
SaveResultsToCsv(csv, results) ==
    IF results = <<>> THEN csv
    ELSE <<[i \in 1..Len(results) |-> ToCsvRow(results[i])]>>

\* python scripts/load_yolo_results.py is started.
StartYoloLoader ==
    /\ yolo_pc \in {"idle", "exited"}
    /\ yolo_pc' = "connect"
    /\ yolo_conn' = "none"
    /\ yolo_rows' = <<>>
    /\ yolo_next' = 0
    /\ yolo_count' = NullInt
    /\ yolo_exit' = NullInt
    /\ yolo_runs' = yolo_runs + 1
    /\ yolo_before' = yolo_table
    /\ UNCHANGED <<yolo_csv, yolo_table, yolo_txn, yolo_results, clock>>

\* An exception leaves main through its except clause, which logs and re-raises:
\* the process exits 1 without conn.close(), and the server rolls back.
YoloRaise ==
    /\ yolo_pc' = "exited"
    /\ yolo_exit' = 1
    /\ yolo_txn' = NoTxn
    /\ yolo_table' = IF yolo_txn = NoTxn THEN yolo_table
                     ELSE AfterAbort(yolo_table, yolo_txn[1])

\* main, lines 139-142: psycopg2.connect
YoloConnect(connected) ==
    /\ yolo_pc = "connect"
    /\ IF connected
       THEN /\ yolo_conn' = "open"
            /\ yolo_pc' = "create"
            /\ UNCHANGED <<yolo_exit, yolo_txn, yolo_table>>
       ELSE /\ yolo_conn' = "refused"
            /\ YoloRaise
    /\ UNCHANGED <<yolo_csv, yolo_rows, yolo_next, yolo_count, yolo_runs,
                   yolo_before, yolo_results, clock>>
    /\ UNCHANGED <<rawVars, pipeVars>>
    /\ UNCHANGED classVars

\* main, line 145: create_raw_yolo_table (commits its own statements)
CreateRawYoloTable(ok) ==
    /\ yolo_pc = "create"
    /\ IF ok
       THEN /\ yolo_pc' = "check"
            /\ UNCHANGED <<yolo_exit, yolo_txn, yolo_table>>
       ELSE YoloRaise
    /\ UNCHANGED <<yolo_csv, yolo_conn, yolo_rows, yolo_next, yolo_count,
                   yolo_runs, yolo_before, yolo_results, clock>>
    /\ UNCHANGED <<rawVars, pipeVars>>
    /\ UNCHANGED classVars

\* main, lines 148-155: without the CSV file the error is logged, the connection
\* closed and main returns (exit 0).
CheckCsv ==
    /\ yolo_pc = "check"
    /\ IF yolo_csv = NoFile
       THEN /\ yolo_pc' = "exited"
            /\ yolo_conn' = "closed"
            /\ yolo_exit' = 0
       ELSE /\ yolo_pc' = "truncate"
            /\ UNCHANGED <<yolo_conn, yolo_exit>>
    /\ UNCHANGED <<yolo_csv, yolo_table, yolo_txn, yolo_rows, yolo_next,
                   yolo_count, yolo_runs, yolo_before, yolo_results, clock>>
    /\ UNCHANGED <<rawVars, pipeVars>>
    /\ UNCHANGED classVars

\* load_yolo_results, lines 88-91: TRUNCATE, the first statement of the transaction
Truncate(ok) ==
    /\ yolo_pc = "truncate"
    /\ clock' = clock + 1
    /\ IF ok
       THEN /\ yolo_txn' = <<TruncateTable(yolo_table)>>
            /\ yolo_table' = AfterStatement(yolo_table, TruncateTable(yolo_table))
            /\ yolo_pc' = "read"
            /\ UNCHANGED yolo_exit
       ELSE YoloRaise
    /\ UNCHANGED <<yolo_csv, yolo_conn, yolo_rows, yolo_next, yolo_count,
                   yolo_runs, yolo_before, yolo_results>>
    /\ UNCHANGED <<rawVars, pipeVars>>
    /\ UNCHANGED classVars

\* load_yolo_results, lines 93-108: the CSV is read into rows
ReadCsv ==
    /\ yolo_pc = "read"
    /\ LET csv == yolo_csv[1]
       IN  IF \E i \in 1..Len(csv) : RowRaises(csv[i])
           THEN /\ YoloRaise
                /\ UNCHANGED <<yolo_rows, yolo_next>>
           ELSE /\ yolo_rows' = [i \in 1..Len(csv) |-> ParseRow(csv[i])]
                /\ yolo_next' = 1
                /\ yolo_pc' = "insert"
                /\ UNCHANGED <<yolo_exit, yolo_txn, yolo_table>>
    /\ UNCHANGED <<yolo_csv, yolo_conn, yolo_count, yolo_runs, yolo_before,
                   yolo_results, clock>>
    /\ UNCHANGED <<rawVars, pipeVars>>
    /\ UNCHANGED classVars

\* load_yolo_results, line 128: execute_batch, one INSERT after another
InsertRow(ok) ==
    /\ yolo_pc = "insert"
    /\ yolo_next <= Len(yolo_rows)
    /\ IF ok
       THEN /\ yolo_txn' = <<UpsertYoloRow(yolo_txn[1], yolo_rows[yolo_next], clock)>>
            /\ yolo_table' = AfterStatement(yolo_table,
                                UpsertYoloRow(yolo_txn[1], yolo_rows[yolo_next], clock))
            /\ yolo_next' = yolo_next + 1
            /\ UNCHANGED <<yolo_pc, yolo_exit>>
       ELSE /\ YoloRaise
            /\ UNCHANGED yolo_next
    /\ UNCHANGED <<yolo_csv, yolo_conn, yolo_rows, yolo_count, yolo_runs,
                   yolo_before, yolo_results, clock>>
    /\ UNCHANGED <<rawVars, pipeVars>>
    /\ UNCHANGED classVars

\* load_yolo_results, lines 129-132: conn.commit() and the returned count
Commit(ok) ==
    /\ yolo_pc = "insert"
    /\ yolo_next > Len(yolo_rows)
    /\ IF ok
       THEN /\ yolo_table' = AfterCommit(yolo_table, yolo_txn[1])
            /\ yolo_txn' = NoTxn
            /\ yolo_count' = Len(yolo_rows)
            /\ yolo_pc' = "close"
            /\ UNCHANGED yolo_exit
       ELSE /\ YoloRaise
            /\ UNCHANGED yolo_count
    /\ UNCHANGED <<yolo_csv, yolo_conn, yolo_rows, yolo_next, yolo_runs,
                   yolo_before, yolo_results, clock>>
    /\ UNCHANGED <<rawVars, pipeVars>>
    /\ UNCHANGED classVars

\* main, lines 150-155: the count is logged and the connection closed
YoloClose ==
    /\ yolo_pc = "close"
    /\ yolo_pc' = "exited"
    /\ yolo_conn' = "closed"
    /\ yolo_exit' = 0
    /\ UNCHANGED <<yolo_csv, yolo_table, yolo_txn, yolo_rows, yolo_next,
                   yolo_count, yolo_runs, yolo_before, yolo_results, clock>>
    /\ UNCHANGED <<rawVars, pipeVars>>
    /\ UNCHANGED classVars

(***************************************************************************)
(* src/yolo_detect.py: classify_image and process_image                    *)
(***************************************************************************)

\* COCO class indices, lines 40-43, and the confidence threshold, line 46 (in
\* hundredths, as every confidence here).
PERSON_CLASS == 0
BOTTLE_CLASS == 39
CUP_CLASS == 41
BOWL_CLASS == 46
CONFIDENCE_THRESHOLD == 25

\* result.names of the model, for the classes used here (2 is a car).
Names == (0 :> "person") @@ (2 :> "car") @@ (39 :> "bottle") @@ (41 :> "cup")
         @@ (46 :> "bowl")

\* process_image, lines 144-148: one entry of `detections`.
Detection(cls_id, confidence) ==
    [class |-> cls_id, class_name |-> Names[cls_id], confidence |-> confidence]

\* model(..., conf=CONFIDENCE_THRESHOLD): the boxes the model may return.
DetectionPool ==
    {d \in {Detection(c, 90) : c \in DOMAIN Names}
           \cup {Detection(PERSON_CLASS, 30), Detection(BOTTLE_CLASS, 10)} :
        d.confidence >= CONFIDENCE_THRESHOLD}

DetectionLists == UNION {[1..n -> DetectionPool] : n \in 0..MaxDetections}

NoCall == <<>>
NoResult == <<>>

\* line 65: [d['class'] for d in detections]
DetectedClasses(detections) == [i \in 1..Len(detections) |-> detections[i].class]

\* Faulty variant: the dictionary is a module-level one that every call adds to.
ClassConfidencesCarried(detections) ==
    [c \in DOMAIN class_confidences \cup {detections[i].class : i \in 1..Len(detections)} |->
        IF \E i \in 1..Len(detections) : detections[i].class = c
        THEN detections[CHOOSE i \in 1..Len(detections) : detections[i].class = c].confidence
        ELSE class_confidences[c]]

\* line 66: {d['class']: d['confidence'] for d in detections}; a later detection
\* of a class overwrites the value of an earlier one.
ClassConfidences(detections) ==
    [c \in {detections[i].class : i \in 1..Len(detections)} |->
        detections[CHOOSE i \in 1..Len(detections) :
                      /\ detections[i].class = c
                      /\ \A j \in (i + 1)..Len(detections) : detections[j].class # c
                  ].confidence]

\* line 68
HasPerson(detected_classes) ==
    \E i \in 1..Len(detected_classes) : detected_classes[i] = PERSON_CLASS

\* Faulty variant: the bowl is left out of the product classes.
HasProductNoBowl(detected_classes) ==
    \E cls \in {BOTTLE_CLASS, CUP_CLASS} :
        \E i \in 1..Len(detected_classes) : detected_classes[i] = cls

\* line 69
HasProduct(detected_classes) ==
    \E cls \in {BOTTLE_CLASS, CUP_CLASS, BOWL_CLASS} :
        \E i \in 1..Len(detected_classes) : detected_classes[i] = cls

\* classify_image, lines 49-80
classify_image(detections) ==
    LET detected_classes == DetectedClasses(detections)
        has_person == HasPerson(detected_classes)
        has_product == HasProduct(detected_classes)
    IN  [category |-> IF has_person /\ has_product THEN "promotional"
                      ELSE IF has_product /\ ~has_person THEN "product_display"
                      ELSE IF has_person /\ ~has_product THEN "lifestyle"
                      ELSE "other",
         class_confidences |-> ClassConfidences(detections)]

\* Faulty variant: the first detection is taken for the top one.
TopDetectionFirst(detections) ==
    IF detections = <<>> THEN 0 ELSE 1

\* line 154: max(detections, key=...), the first detection of the highest
\* confidence (an index into detections; 0 for None).
TopDetection(detections) ==
    IF detections = <<>> THEN 0
    ELSE CHOOSE i \in 1..Len(detections) :
             /\ \A j \in 1..Len(detections) :
                    detections[j].confidence <= detections[i].confidence
             /\ \A j \in 1..(i - 1) :
                    detections[j].confidence < detections[i].confidence

\* line 155
TopClass(detections) ==
    IF TopDetection(detections) # 0
    THEN detections[TopDetection(detections)].class_name ELSE NULL

\* Faulty variant: without a detection the threshold is reported.
TopConfidenceThreshold(detections) ==
    IF TopDetection(detections) # 0
    THEN detections[TopDetection(detections)].confidence ELSE CONFIDENCE_THRESHOLD

\* line 156
TopConfidence(detections) ==
    IF TopDetection(detections) # 0
    THEN detections[TopDetection(detections)].confidence ELSE 0

\* str(dict): the items in the order the keys were first inserted.
DictItems(detections, dict) ==
    LET first == {i \in 1..Len(detections) :
                     \A j \in 1..(i - 1) : detections[j].class # detections[i].class}
        nth(k) == CHOOSE i \in first : Cardinality({j \in first : j < i}) = k - 1
    IN  [k \in 1..Cardinality(first) |->
            <<detections[nth(k)].class, dict[detections[nth(k)].class]>>]

\* process_image, lines 110-175, from the detections on; detected_classes is the
\* list that ','.join writes out and all_confidences the items str() writes out.
process_image(message_id, channel_name, image_path, detections) ==
    LET out == classify_image(detections)
    IN  [message_id |-> message_id,
         channel_name |-> channel_name,
         image_path |-> image_path,
         detected_objects_count |-> Len(detections),
         detected_classes |-> DetectedClasses(detections),
         top_detected_class |-> TopClass(detections),
         top_confidence |-> TopConfidence(detections),
         image_category |-> out.category,
         all_confidences |-> DictItems(detections, out.class_confidences)]

\* The characters of a file name's stem, and int() of a string of them.
Digits == ("0" :> 0) @@ ("1" :> 1) @@ ("2" :> 2) @@ ("3" :> 3) @@ ("4" :> 4)
          @@ ("5" :> 5) @@ ("6" :> 6) @@ ("7" :> 7) @@ ("8" :> 8) @@ ("9" :> 9)

RECURSIVE DecimalValue(_)
DecimalValue(stem) ==
    IF stem = <<>> THEN 0
    ELSE DecimalValue(SubSeq(stem, 1, Len(stem) - 1)) * 10 + Digits[stem[Len(stem)]]

\* An image file data/raw/images/{channel}/{stem}{suffix}, the stem as its
\* characters.
Image(channel, stem, suffix) == [channel |-> channel, stem |-> stem, suffix |-> suffix]

\* Faulty variant: a stem that is no number counts as message 0.
ExtractMessageIdOrZero(image_path) ==
    IF /\ image_path.stem # <<>>
       /\ \A i \in 1..Len(image_path.stem) : image_path.stem[i] \in DOMAIN Digits
    THEN <<DecimalValue(image_path.stem)>>
    ELSE <<0>>

\* extract_message_id_from_path, lines 83-93: <<int(stem)>>, or <<>> for the None
\* of a ValueError.
extract_message_id_from_path(image_path) ==
    IF /\ image_path.stem # <<>>
       /\ \A i \in 1..Len(image_path.stem) : image_path.stem[i] \in DOMAIN Digits
    THEN <<DecimalValue(image_path.stem)>>
    ELSE <<>>

\* extract_channel_from_path, lines 96-107: the name of the parent directory.
extract_channel_from_path(image_path) == <<image_path.channel>>

\* find_all_images, lines 178-202: the extensions it accepts.
image_extensions == {".jpg", ".jpeg", ".png", ".JPG", ".JPEG", ".PNG"}

\* The files under data/raw/images: two attachments of messages 1 and 12, one
\* file whose stem is no number, and one that is not an image.
ImagePool ==
    {Image("chA", <<"1">>, ".jpg"), Image("chA", <<"1", "2">>, ".png"),
     Image("chA", <<"p", "1">>, ".jpg"), Image("chB", <<"1">>, ".txt")}

\* The directory listings of at most MaxImages files, in iterdir's order.
ImageDirs ==
    UNION {{files \in [1..n -> ImagePool] :
               \A i, j \in 1..n : i # j => files[i] # files[j]} : n \in 0..MaxImages}

\* find_all_images, lines 178-202: the files with an image extension, in order.
RECURSIVE find_all_images(_)
find_all_images(files) ==
    IF files = <<>> THEN <<>>
    ELSE LET rest == find_all_images(SubSeq(files, 1, Len(files) - 1))
             last == files[Len(files)]
         IN  IF last.suffix \in image_extensions THEN Append(rest, last) ELSE rest

\* What the model returns for an image in the runs of main explored here.
ModelOutputs ==
    {<<>>, <<Detection(PERSON_CLASS, 90)>>,
     <<Detection(BOTTLE_CLASS, 90), Detection(PERSON_CLASS, 30)>>}

\* No image has been processed.
CallInit ==
    /\ call_detections = <<>>
    /\ category = NULL
    /\ class_confidences = <<>>
    /\ result = NoResult
    /\ remembered = NoCall

\* python src/yolo_detect.py has not started; `files` are under data/raw/images.
DetectIdle(files) ==
    /\ detect_pc = "idle"
    /\ detect_images = files
    /\ detect_idx = 0
    /\ detect_results = <<>>
    /\ error_count = 0
    /\ detect_exit = NullInt
    /\ detect_csv = NoFile
    /\ detect_raised = <<>>

ClassInit ==
    /\ CallInit
    /\ DetectIdle(<<>>)

\* main, lines 241-260: the model is loaded and the images are found; main returns
\* when the model cannot be loaded or there is no image.
LoadModel(loaded) ==
    /\ detect_pc = "idle"
    /\ detect_images' = find_all_images(detect_images)
    /\ IF loaded /\ detect_images' # <<>>
       THEN detect_pc' = "loop" /\ detect_exit' = detect_exit
       ELSE detect_pc' = "exited" /\ detect_exit' = 0
    /\ UNCHANGED <<detect_idx, detect_results, error_count, detect_csv, detect_raised>>
    /\ UNCHANGED <<call_detections, category, class_confidences, result, remembered>>
    /\ UNCHANGED <<rawVars, yoloVars, clock, pipeVars>>

\* main, lines 268-277, with process_image, lines 110-175: the next image is
\* processed; the model returns `detections` for it, or raises.
DetectImage(raises, detections) ==
    LET image_path == detect_images[detect_idx + 1]
        message_id == extract_message_id_from_path(image_path)
        channel_name == extract_channel_from_path(image_path)
        skipped == message_id = <<>> \/ channel_name = <<>> \/ raises
        out == classify_image(detections)
    IN  /\ detect_pc = "loop"
        /\ detect_idx < Len(detect_images)
        /\ detect_idx' = detect_idx + 1
        /\ detect_raised' = Append(detect_raised, raises)
        /\ IF skipped
           THEN /\ error_count' = error_count + 1
                /\ UNCHANGED <<detect_results, call_detections, category,
                               class_confidences, result>>
           ELSE /\ detect_results' =
                       Append(detect_results,
                              process_image(message_id[1], channel_name[1], image_path,
                                            detections))
                /\ call_detections' = detections
                /\ category' = out.category
                /\ class_confidences' = out.class_confidences
                /\ result' = <<detect_results'[Len(detect_results')]>>
                /\ UNCHANGED error_count
        /\ detect_pc' = IF detect_idx' = Len(detect_images) THEN "save" ELSE "loop"
        /\ UNCHANGED <<detect_images, detect_exit, detect_csv, remembered>>
        /\ UNCHANGED <<rawVars, yoloVars, clock, pipeVars>>

\* main, lines 281-308, with save_results_to_csv, lines 205-238: the results are
\* written, unless there is none; an error of the write is raised again and ends
\* the process.
SaveResults(write_error) ==
    /\ detect_pc = "save"
    /\ IF detect_results # <<>> /\ write_error
       THEN detect_pc' = "raised" /\ detect_exit' = 1 /\ detect_csv' = detect_csv
       ELSE /\ detect_pc' = "exited"
            /\ detect_exit' = 0
            /\ detect_csv' = IF detect_results = <<>> THEN detect_csv
                             ELSE <<detect_results>>
    /\ UNCHANGED <<detect_images, detect_idx, detect_results, error_count,
                   detect_raised>>
    /\ UNCHANGED <<call_detections, category, class_confidences, result, remembered>>
    /\ UNCHANGED <<rawVars, yoloVars, clock, pipeVars>>

\* main, lines 268-277: one image is processed; the model returned `detections`.
\* With `keep` the call and its outcome are remembered, if none is yet (only calls
\* on at most one detection are); a remembered call notes whether a call on other
\* detections came after it.
ProcessImage(detections, keep) ==
    LET out == classify_image(detections)
    IN  /\ keep => (remembered = NoCall /\ Len(detections) <= 1)
        /\ call_detections' = detections
        /\ category' = out.category
        /\ class_confidences' = out.class_confidences
        /\ result' = <<process_image(1, "chA", "data/raw/images/chA/1.jpg",
                                     detections)>>
        /\ remembered' =
               IF keep
               THEN <<[detections |-> detections,
                       category |-> out.category,
                       class_confidences |-> out.class_confidences,
                       others |-> FALSE]>>
               ELSE IF remembered = NoCall THEN NoCall
               ELSE <<[remembered[1] EXCEPT
                          !.others = @ \/ detections # remembered[1].detections]>>
        /\ UNCHANGED detectVars
        /\ UNCHANGED <<rawVars, yoloVars, clock, pipeVars>>

(***************************************************************************)
(* pipeline.py: the five ops and the job medical_telegram_pipeline, run by *)
(* Dagster.                                                                *)
(***************************************************************************)

\* The ops in the order the job wires them, lines 321-325.
Ops == 1..5

OpName == <<"scrape_telegram_data", "load_raw_to_postgres", "run_dbt_transformations",
            "run_yolo_enrichment", "load_yolo_results">>

\* AssetMaterialization(asset_key=...) of each op
AssetKey == <<"telegram_data", "raw_postgres_data", "dbt_marts", "yolo_detections",
              "yolo_postgres_data">>

\* The value each op returns.
ReturnValue == <<"scraping_success", "loading_success", "dbt_success", "yolo_success",
                 "yolo_loading_success">>

\* RetryPolicy(max_retries=...) of each op, lines 43, 92, 140, 201 and 250.
RetryPolicy == <<2, 2, 2, 1, 2>>

\* Faulty variant: an op waits only for the op before it to have been started.
UpstreamStarted(s) == IF s = 1 THEN TRUE ELSE stage_status[s - 1] # "Pending"

\* Lines 321-325: each op takes the output of the op before it, so Dagster starts
\* it once that op has succeeded.
UpstreamDone(s) == IF s = 1 THEN TRUE ELSE stage_status[s - 1] = "Succeeded"

\* Faulty variants: max_retries taken as the number of attempts; one retry too many.
ShouldRetryOneLess(s) == attempt[s] < max_retries[s]

ShouldRetryOneMore(s) == attempt[s] <= max_retries[s] + 1

\* Faulty variant: every op is retried twice, whatever its policy.
ShouldRetryTwice(s) == attempt[s] <= 2

\* RetryPolicy: a failed step is retried while its attempts so far do not exceed
\* max_retries.
ShouldRetry(s) == attempt[s] <= max_retries[s]

\* Faulty variant: subprocess.run without check=True.
CheckNever(exit) == FALSE

\* Faulty variant: only a negative status (a signal) raises.
CheckRaisesOnSignal(exit) == exit < 0

\* subprocess.run(..., check=True) raises CalledProcessError on a non-zero status.
CheckRaises(exit) == exit # 0

PipeInit ==
    /\ run_status = "Running"
    /\ stage_status = [s \in Ops |-> "Pending"]
    /\ attempt = [s \in Ops |-> 0]
    /\ op_pc = "none"
    /\ token = [s \in Ops |-> ""]
    /\ primary_exit = [s \in Ops |-> NullInt]
    /\ events = <<>>
    /\ aux_returncode = [s \in Ops |-> NullInt]

\* Dagster starts the first attempt of step s.
StartStep(s) ==
    /\ run_status = "Running"
    /\ stage_status[s] = "Pending"
    /\ UpstreamDone(s)
    /\ stage_status' = [stage_status EXCEPT ![s] = "Running"]
    /\ attempt' = [attempt EXCEPT ![s] = 1]
    /\ primary_exit' = [primary_exit EXCEPT ![s] = NullInt]
    /\ op_pc' = "call"
    /\ UNCHANGED <<run_status, token, events, max_retries, stdout, aux_returncode,
                   rawVars, yoloVars, clock>>
    /\ UNCHANGED classVars

\* Dagster retries the failed step s.
RetryStep(s) ==
    /\ run_status = "Running"
    /\ stage_status[s] = "Failed"
    /\ ShouldRetry(s)
    /\ stage_status' = [stage_status EXCEPT ![s] = "Running"]
    /\ attempt' = [attempt EXCEPT ![s] = attempt[s] + 1]
    /\ primary_exit' = [primary_exit EXCEPT ![s] = NullInt]
    /\ op_pc' = "call"
    /\ UNCHANGED <<run_status, token, events, max_retries, stdout, aux_returncode,
                   rawVars, yoloVars, clock>>
    /\ UNCHANGED classVars

\* Faulty variant: the step fails for good and the run is left running.
AbortStepOnly(s) ==
    /\ run_status = "Running"
    /\ stage_status[s] = "Failed"
    /\ ~ShouldRetry(s)
    /\ stage_status' = [stage_status EXCEPT ![s] = "Aborted"]
    /\ UNCHANGED <<run_status, attempt, op_pc, token, primary_exit, events,
                   max_retries, stdout, aux_returncode, rawVars, yoloVars, clock>>
    /\ UNCHANGED classVars

\* The retries of step s are used up: the step and the run fail.
AbortStep(s) ==
    /\ run_status = "Running"
    /\ stage_status[s] = "Failed"
    /\ ~ShouldRetry(s)
    /\ stage_status' = [stage_status EXCEPT ![s] = "Aborted"]
    /\ run_status' = "Failed"
    /\ UNCHANGED <<attempt, op_pc, token, primary_exit, events, max_retries, stdout, aux_returncode,
                   rawVars, yoloVars, clock>>
    /\ UNCHANGED classVars

\* Every step has succeeded.
FinishRun ==
    /\ run_status = "Running"
    /\ \A s \in Ops : stage_status[s] = "Succeeded"
    /\ run_status' = "Succeeded"
    /\ UNCHANGED <<stage_status, attempt, op_pc, token, primary_exit, events,
                   max_retries, stdout, aux_returncode, rawVars, yoloVars, clock>>
    /\ UNCHANGED classVars

\* A text of n characters, each the number of its position.
Text(n) == [i \in 1..n |-> i]

\* The outputs of the five commands in a run: op s prints (n + s) mod
\* (MaxOutputLen + 1) characters.
Stdout(n) == [s \in Ops |-> Text((n + s) % (MaxOutputLen + 1))]

\* Faulty variant: result.stdout[:500], the head of the output.
OutputHead(text) ==
    IF Len(text) <= tail_length THEN text ELSE SubSeq(text, 1, tail_length)

\* result.stdout[-500:]
OutputTail(text) ==
    IF Len(text) <= tail_length THEN text
    ELSE SubSeq(text, Len(text) - tail_length + 1, Len(text))

\* The end of an op body whose primary command exited with `exit`: the except
\* clauses log and re-raise; otherwise the event is logged and the value returned.
OpEnds(s, exit, metadata) ==
    /\ primary_exit' = [primary_exit EXCEPT ![s] = exit]
    /\ op_pc' = "none"
    /\ IF CheckRaises(exit)
       THEN /\ stage_status' = [stage_status EXCEPT ![s] = "Failed"]
            /\ UNCHANGED <<events, token>>
       ELSE /\ stage_status' = [stage_status EXCEPT ![s] = "Succeeded"]
            /\ events' = Append(events, [asset_key |-> AssetKey[s], op |-> s,
                                         attempt |-> attempt[s],
                                         metadata |-> metadata])
            /\ token' = [token EXCEPT ![s] = ReturnValue[s]]
    /\ UNCHANGED <<run_status, attempt, max_retries, stdout>>

\* What one run of src/scraper.py may write to the data lake.
ScraperWrites ==
    {<<>>, (<<"2024-01-06", "chA">> :> <<MsgB, MsgC>>)}

\* Lines 46-88.  The scraper exits with `exit` having written `written`.
scrape_telegram_data(exit, written) ==
    /\ stage_status[1] = "Running"
    /\ op_pc = "call"
    /\ datalake' = written @@ datalake
    /\ OpEnds(1, exit, [scraper_output |-> OutputTail(stdout[1]),
                         status |-> "success"])
    /\ UNCHANGED aux_returncode
    /\ UNCHANGED <<raw_table, raw_pc, raw_conn, json_files, file_idx,
                   total_messages, raw_exit, raw_runs, expected, last_load, load_count,
                   yoloVars, clock>>
    /\ UNCHANGED classVars

\* Lines 95-112: subprocess.run starts the raw loader and waits for it.
load_raw_to_postgres ==
    /\ stage_status[2] = "Running"
    /\ op_pc = "call"
    /\ StartRawLoader
    /\ op_pc' = "wait"
    /\ UNCHANGED <<run_status, stage_status, attempt, token, primary_exit, events,
                   max_retries, stdout, aux_returncode, yoloVars>>
    /\ UNCHANGED classVars

\* Lines 112-136: the raw loader has exited and subprocess.run returns; nothing
\* of the loader process remains.
load_raw_to_postgres_returns ==
    /\ stage_status[2] = "Running"
    /\ op_pc = "wait"
    /\ raw_pc = "exited"
    /\ OpEnds(2, raw_exit, [loader_output |-> OutputTail(stdout[2]),
                             status |-> "success"])
    /\ UNCHANGED aux_returncode
    /\ raw_pc' = "idle"
    /\ raw_conn' = "none"
    /\ json_files' = <<>>
    /\ file_idx' = 0
    /\ total_messages' = 0
    /\ raw_exit' = NullInt
    /\ UNCHANGED <<datalake, raw_table, raw_runs, expected, last_load, load_count, yoloVars,
                   clock>>
    /\ UNCHANGED classVars

\* Lines 143-197: dbt run, then dbt test, whose status only goes into the event.
run_dbt_transformations(exit, test_returncode) ==
    /\ stage_status[3] = "Running"
    /\ op_pc = "call"
    /\ OpEnds(3, exit,
              [dbt_output |-> OutputTail(stdout[3]),
               test_status |-> IF test_returncode = 0 THEN "passed" ELSE "failed",
               status |-> "success"])
    /\ aux_returncode' = [aux_returncode EXCEPT
                              ![3] = IF CheckRaises(exit) THEN NullInt
                                     ELSE test_returncode]
    /\ UNCHANGED <<rawVars, yoloVars, clock>>
    /\ UNCHANGED classVars

\* The result lists src/yolo_detect.py may arrive at in a pipeline run.
PipelineResults ==
    {<<>>, <<ResPromo, ResOther>>, <<ResPromo, ResPng>>}

\* Lines 204-246.  yolo_detect.py exits with `exit`; when it exits 0 it has called
\* save_results_to_csv on its results.
run_yolo_enrichment(exit, results) ==
    /\ stage_status[4] = "Running"
    /\ op_pc = "call"
    /\ yolo_csv' = IF exit = 0 THEN SaveResultsToCsv(yolo_csv, results) ELSE yolo_csv
    /\ yolo_results' = IF exit = 0 THEN results ELSE yolo_results
    /\ OpEnds(4, exit, [yolo_output |-> OutputTail(stdout[4]),
                         status |-> "success"])
    /\ UNCHANGED aux_returncode
    /\ UNCHANGED <<yolo_table, yolo_txn, yolo_pc, yolo_conn, yolo_rows, yolo_next,
                   yolo_count, yolo_exit, yolo_runs, yolo_before, rawVars, clock>>
    /\ UNCHANGED classVars

\* Lines 253-270: subprocess.run starts the YOLO loader and waits for it.
load_yolo_results ==
    /\ stage_status[5] = "Running"
    /\ op_pc = "call"
    /\ StartYoloLoader
    /\ op_pc' = "wait"
    /\ UNCHANGED <<run_status, stage_status, attempt, token, primary_exit, events,
                   max_retries, stdout, aux_returncode, rawVars>>
    /\ UNCHANGED classVars

\* Lines 270-303: the YOLO loader has exited and nothing of its process remains;
\* dbt run --select follows when it exited 0, and its status is not looked at.
load_yolo_results_returns(dbt_returncode) ==
    /\ stage_status[5] = "Running"
    /\ op_pc = "wait"
    /\ yolo_pc = "exited"
    /\ OpEnds(5, yolo_exit, [loader_output |-> OutputTail(stdout[5]),
                              status |-> "success"])
    /\ aux_returncode' = [aux_returncode EXCEPT
                              ![5] = IF CheckRaises(yolo_exit) THEN NullInt
                                     ELSE dbt_returncode]
    /\ yolo_pc' = "idle"
    /\ yolo_conn' = "none"
    /\ yolo_rows' = <<>>
    /\ yolo_next' = 0
    /\ yolo_count' = NullInt
    /\ yolo_exit' = NullInt
    /\ UNCHANGED <<yolo_csv, yolo_table, yolo_txn, yolo_runs, yolo_before,
                   yolo_results, rawVars,
                   clock>>
    /\ UNCHANGED classVars

(***************************************************************************)
(* Specifications                                                          *)
(***************************************************************************)

\* The data lakes a pipeline run may start from.
PipelineLakes ==
    {(<<"2024-01-05", "chA">> :> <<MsgA, MsgB>>),
     (<<"2024-01-05", "chA">> :> <<MsgNoId>>)}

Init ==
    /\ PipeInit
    /\ ClassInit
    /\ max_retries = RetryPolicy
    /\ stdout = Stdout(0)
    /\ datalake \in PipelineLakes
    /\ RawInit
    /\ YoloInit

Next ==
    \/ \E s \in Ops : StartStep(s)
    \/ \E s \in Ops : RetryStep(s)
    \/ \E s \in Ops : AbortStep(s)
    \/ FinishRun
    \/ \E exit \in {0, 1}, written \in ScraperWrites : scrape_telegram_data(exit, written)
    \/ load_raw_to_postgres
    \/ \E connected \in BOOLEAN : RawConnect(connected)
    \/ \E ok \in BOOLEAN : CreateRawSchema(ok)
    \/ \E order \in Orders(DOMAIN datalake) : GetJsonFiles(order)
    \/ \E db_error \in BOOLEAN : LoadFile(db_error)
    \/ Summary
    \/ load_raw_to_postgres_returns
    \/ \E exit \in {0, 1}, rc \in {0, 1} : run_dbt_transformations(exit, rc)
    \/ \E exit \in {0, 1}, results \in PipelineResults : run_yolo_enrichment(exit, results)
    \/ load_yolo_results
    \/ \E connected \in BOOLEAN : YoloConnect(connected)
    \/ \E ok \in BOOLEAN : CreateRawYoloTable(ok)
    \/ CheckCsv
    \/ \E ok \in BOOLEAN : Truncate(ok)
    \/ ReadCsv
    \/ \E ok \in BOOLEAN : InsertRow(ok)
    \/ \E ok \in BOOLEAN : Commit(ok)
    \/ YoloClose
    \/ \E rc \in {0, 1} : load_yolo_results_returns(rc)

\* One run of the job medical_telegram_pipeline.
Spec == Init /\ [][Next]_vars

\* The same run with the ops' max_retries drawn from 0..MaxPolicyRetries.
PolicyInit ==
    /\ PipeInit
    /\ ClassInit
    /\ max_retries \in {[s \in Ops |-> (n + s) % (MaxPolicyRetries + 1)] :
                            n \in 0..MaxPolicyRetries}
    /\ stdout = Stdout(0)
    /\ datalake = (<<"2024-01-05", "chA">> :> <<MsgA, MsgB>>)
    /\ RawInit
    /\ YoloInit

SpecPolicy == PolicyInit /\ [][Next]_vars

\* python scripts/load_to_postgres.py, from a shell.
RunRawLoader ==
    /\ raw_runs < MaxLoaderRuns
    /\ StartRawLoader
    /\ UNCHANGED <<yoloVars, pipeVars>>
    /\ UNCHANGED classVars

UpsertInit ==
    /\ PipeInit
    /\ ClassInit
    /\ max_retries = RetryPolicy
    /\ stdout = Stdout(0)
    /\ datalake \in DataLakes
    /\ RawInit
    /\ YoloInit

UpsertNext ==
    \/ RunRawLoader
    \/ \E connected \in BOOLEAN : RawConnect(connected)
    \/ \E ok \in BOOLEAN : CreateRawSchema(ok)
    \/ \E order \in Orders(DOMAIN datalake) : GetJsonFiles(order)
    \/ \E db_error \in BOOLEAN : LoadFile(db_error)
    \/ Summary

\* The raw loader, run again and again over a data lake drawn at the start.
SpecUpsert == UpsertInit /\ [][UpsertNext]_vars

\* src/yolo_detect.py rewrites the CSV between two runs of the YOLO loader.
WriteCsv(results) ==
    /\ yolo_pc \in {"idle", "exited"}
    /\ yolo_runs < MaxYoloRuns
    /\ yolo_csv' = SaveResultsToCsv(yolo_csv, results)
    /\ yolo_results' = results
    /\ UNCHANGED <<yolo_table, yolo_txn, yolo_pc, yolo_conn, yolo_rows, yolo_next,
                   yolo_count, yolo_exit, yolo_runs, yolo_before, clock, rawVars,
                   pipeVars>>
    /\ UNCHANGED classVars

\* python scripts/load_yolo_results.py, from a shell.
RunYoloLoader ==
    /\ yolo_runs < MaxYoloRuns
    /\ StartYoloLoader
    /\ UNCHANGED <<rawVars, pipeVars>>
    /\ UNCHANGED classVars

DetectInit ==
    /\ PipeInit
    /\ ClassInit
    /\ max_retries = RetryPolicy
    /\ stdout = Stdout(0)
    /\ datalake = <<>>
    /\ RawInit
    /\ YoloInit

DetectNext ==
    \/ \E results \in ResultLists : WriteCsv(results)
    \/ RunYoloLoader
    \/ \E connected \in BOOLEAN : YoloConnect(connected)
    \/ \E ok \in BOOLEAN : CreateRawYoloTable(ok)
    \/ CheckCsv
    \/ \E ok \in BOOLEAN : Truncate(ok)
    \/ ReadCsv
    \/ \E ok \in BOOLEAN : InsertRow(ok)
    \/ \E ok \in BOOLEAN : Commit(ok)
    \/ YoloClose

\* The YOLO loader, run again and again, the CSV rewritten between its runs.
SpecDetect == DetectInit /\ [][DetectNext]_vars

\* What a first run of the job that succeeded on every first attempt leaves behind
\* when the data lake held FirstLake, the scraper wrote nothing new and
\* src/yolo_detect.py arrived at FirstResults: the two tables, the CSV file and
\* the clock.
FirstLake == (<<"2024-01-05", "chA">> :> <<MsgA, MsgB>>)

FirstResults == <<ResPromo, ResOther>>

AfterFirstRun ==
    /\ datalake = FirstLake
    /\ raw_table = InsertMessages({}, <<MsgA, MsgB>>, "chA", 1, FALSE).table
    /\ expected = ExpectedAfter(<<>>, InsertData(<<MsgA, MsgB>>, "chA", 1))
    /\ last_load = <<<<MsgA, MsgB>>, "chA">>
    /\ load_count = (<<"2024-01-05", "chA">> :> 1)
    /\ raw_runs = 1
    /\ clock = 2
    /\ yolo_csv = SaveResultsToCsv(NoFile, FirstResults)
    /\ yolo_table = SnapshotTable([i \in 1..Len(FirstResults) |->
                                      ParseRow(ToCsvRow(FirstResults[i]))], 2)
    /\ yolo_runs = 1
    /\ yolo_before = {}
    /\ yolo_results = FirstResults

\* What a first run leaves behind that aborted in its raw-load stage, the loader
\* having failed in create_raw_schema on each of its three attempts.
AfterAbortedRun ==
    /\ datalake = FirstLake
    /\ raw_table = {}
    /\ expected = <<>>
    /\ last_load = NoLoad
    /\ load_count = <<>>
    /\ raw_runs = 3
    /\ clock = 0
    /\ yolo_csv = NoFile
    /\ yolo_table = {}
    /\ yolo_runs = 0
    /\ yolo_before = {}
    /\ yolo_results = <<>>

\* The next run of the job starts from what the first run left.
RerunInit ==
    /\ PipeInit
    /\ ClassInit
    /\ max_retries = RetryPolicy
    /\ stdout = Stdout(0)
    /\ AfterFirstRun \/ AfterAbortedRun
    /\ raw_pc = "idle"
    /\ raw_conn = "none"
    /\ json_files = <<>>
    /\ file_idx = 0
    /\ total_messages = 0
    /\ raw_exit = NullInt
    /\ yolo_txn = NoTxn
    /\ yolo_pc = "idle"
    /\ yolo_conn = "none"
    /\ yolo_rows = <<>>
    /\ yolo_next = 0
    /\ yolo_count = NullInt
    /\ yolo_exit = NullInt

SpecRerun == RerunInit /\ [][Next]_vars

ClassifyInit ==
    /\ PipeInit
    /\ ClassInit
    /\ max_retries = RetryPolicy
    /\ stdout = Stdout(0)
    /\ datalake = <<>>
    /\ RawInit
    /\ YoloInit

ClassifyNext ==
    \E detections \in DetectionLists, keep \in BOOLEAN : ProcessImage(detections, keep)

\* src/yolo_detect.py processing one image after another.
SpecClassify == ClassifyInit /\ [][ClassifyNext]_vars

\* python src/yolo_detect.py, from a shell, over a directory of images.
EnrichInit ==
    /\ PipeInit
    /\ CallInit
    /\ \E files \in ImageDirs : DetectIdle(files)
    /\ max_retries = RetryPolicy
    /\ stdout = Stdout(0)
    /\ datalake = <<>>
    /\ RawInit
    /\ YoloInit

EnrichNext ==
    \/ \E loaded \in BOOLEAN : LoadModel(loaded)
    \/ \E raises \in BOOLEAN, detections \in ModelOutputs :
           DetectImage(raises, detections)
    \/ \E write_error \in BOOLEAN : SaveResults(write_error)

SpecEnrich == EnrichInit /\ [][EnrichNext]_vars

\* A run over an empty data lake, the outputs of its commands drawn from the
\* texts of at most MaxOutputLen characters.
OutputInit ==
    /\ PipeInit
    /\ ClassInit
    /\ max_retries = RetryPolicy
    /\ stdout \in {Stdout(n) : n \in 0..MaxOutputLen}
    /\ datalake = <<>>
    /\ RawInit
    /\ YoloInit

SpecOutput == OutputInit /\ [][Next]_vars

\* A run in which Dagster and the commands it starts go on as long as a step is
\* possible: each attempt ends, and the run is then retried, aborted or finished.
LiveInit ==
    /\ OutputInit
    /\ stdout = Stdout(0)

SpecLive == LiveInit /\ [][Next]_vars /\ WF_vars(Next)

(***************************************************************************)
(* Properties                                                              *)
(***************************************************************************)

\* The attempts a retry policy allows.
MaxAttempts(s) == max_retries[s] + 1

\* C1: the five stages start in the order extract, raw-load, transform, enrich,
\* enrich-load: a stage has started an attempt only if every stage before it has
\* reached Succeeded in this run.
C1_StagesInOrder ==
    \A s \in Ops : attempt[s] > 0 => \A t \in 1..(s - 1) : stage_status[t] = "Succeeded"

C1_Witness ==
    /\ attempt[2] = 2
    /\ attempt[5] = 1
    /\ stage_status[5] = "Running"

\* C2: when a stage is Aborted the run is Failed and no stage after it has started
\* an attempt.
C2_AbortStopsRun ==
    \A s \in Ops :
        stage_status[s] = "Aborted" =>
            /\ run_status = "Failed"
            /\ \A t \in (s + 1)..5 : attempt[t] = 0 /\ stage_status[t] = "Pending"

C2_Witness ==
    /\ stage_status[1] = "Succeeded"
    /\ stage_status[2] = "Aborted"
    /\ run_status = "Failed"

\* C3: a failed attempt numbered below max_attempts can only be followed by another
\* attempt of the stage, the failed attempt numbered max_attempts only by Aborted;
\* no stage is Aborted after fewer than max_attempts attempts, and an Aborted or
\* Succeeded stage is never attempted again.
C3_RetryState ==
    \A s \in Ops :
        /\ attempt[s] <= MaxAttempts(s)
        /\ stage_status[s] = "Aborted" => attempt[s] = MaxAttempts(s)
        /\ (stage_status[s] = "Failed" /\ attempt[s] < MaxAttempts(s)) =>
               ENABLED RetryStep(s) /\ ~ENABLED AbortStep(s)
        /\ (stage_status[s] = "Failed" /\ attempt[s] = MaxAttempts(s)) =>
               ENABLED AbortStep(s) /\ ~ENABLED RetryStep(s)

C3_RetryStep ==
    \A s \in Ops :
        /\ stage_status[s] \in {"Aborted", "Succeeded"} =>
               attempt'[s] = attempt[s] /\ stage_status'[s] = stage_status[s]
        /\ (stage_status[s] = "Failed" /\ stage_status'[s] # "Failed") =>
               IF attempt[s] < MaxAttempts(s)
               THEN stage_status'[s] = "Running" /\ attempt'[s] = attempt[s] + 1
               ELSE stage_status'[s] = "Aborted" /\ attempt'[s] = attempt[s]

C3_RetryLaw == []C3_RetryState /\ [][C3_RetryStep]_vars

C3_Witness ==
    /\ attempt[1] = 3
    /\ stage_status[1] = "Succeeded"
    /\ stage_status[4] = "Aborted"
    /\ attempt[4] = 2

\* C4: a stage that failed an attempt and whose later attempt exits zero is
\* Succeeded, and the next stage can then start (or has started); a stage with
\* max_attempts = 1 whose attempt 1 fails can only become Aborted, and no stage
\* after it starts.
C4_RetryThenSucceed ==
    \A s \in Ops :
        /\ (attempt[s] >= 2 /\ primary_exit[s] = 0) =>
               /\ stage_status[s] = "Succeeded"
               /\ s < 5 => (attempt[s + 1] > 0 \/ ENABLED StartStep(s + 1))
        /\ (MaxAttempts(s) = 1 /\ stage_status[s] = "Failed") =>
               ENABLED AbortStep(s) /\ ~ENABLED RetryStep(s)
        /\ (MaxAttempts(s) = 1 /\ stage_status[s] \in {"Failed", "Aborted"}) =>
               attempt[s] = 1 /\ \A t \in (s + 1)..5 : attempt[t] = 0

C4_Witness ==
    /\ MaxAttempts(1) >= 2
    /\ attempt[1] = 2
    /\ stage_status[1] = "Succeeded"
    /\ MaxAttempts(2) = 1
    /\ stage_status[2] = "Aborted"
    /\ attempt[3] = 0

\* C5: an attempt whose primary command exited non-zero is Failed (and the stage
\* Aborted once its retries are used up): the op has emitted no materialization
\* event and returned no value.
C5_NonZeroExitFails ==
    \A s \in Ops :
        (primary_exit[s] # NullInt /\ primary_exit[s] # 0) =>
            /\ stage_status[s] \in {"Failed", "Aborted"}
            /\ token[s] = ""
            /\ \A i \in 1..Len(events) : events[i].op # s

C5_Witness ==
    /\ primary_exit[2] = 1
    /\ stage_status[2] = "Failed"
    /\ attempt[2] = 2
    /\ Len(events) = 1

\* C6: when the raw loader cannot connect to the warehouse, the raw-load attempt
\* does not become Succeeded.
C6_ConnectFailureFails ==
    [][(stage_status[2] = "Running" /\ raw_conn = "refused")
           => stage_status'[2] # "Succeeded"]_vars

\* C7: raw.telegram_messages holds at most one row per natural key (message_id,
\* channel_name), one for every key loaded, and the Record fields of that row are
\* those of the last committed record with that key, nulls included.
C7_LastWriteWins ==
    /\ \A r1, r2 \in raw_table : KeyOf(r1) = KeyOf(r2) => r1 = r2
    /\ {KeyOf(r) : r \in raw_table} = DOMAIN expected
    /\ \A r \in raw_table : RecordOf(r) = expected[KeyOf(r)]

C7_Witness ==
    /\ raw_pc = "summary"
    /\ Len(json_files) = 2
    /\ datalake[json_files[1]] = <<MsgA>>
    /\ datalake[json_files[2]] = <<MsgA, MsgB>>
    /\ Cardinality(raw_table) = 1
    /\ \E r \in raw_table :
           /\ KeyOf(r) = <<1, "chB">>
           /\ r.message_text = "B"
           /\ r.image_path = NULL
           /\ r.views = NullInt

\* C8: a committed insert_messages of the batch that the last committed
\* insert_messages loaded leaves the row count and the Record fields as they were.
C8_Idempotent ==
    [][(raw_pc = "loop" /\ total_messages' > total_messages /\ last_load' = last_load)
           => /\ Cardinality(raw_table') = Cardinality(raw_table)
              /\ {RecordOf(r) : r \in raw_table'} = {RecordOf(r) : r \in raw_table}]_vars

C8_Witness ==
    /\ raw_pc = "summary"
    /\ Len(json_files) = 2
    /\ datalake[json_files[1]] = datalake[json_files[2]]
    /\ total_messages = 2 * Len(datalake[json_files[1]])
    /\ Cardinality(raw_table) = 2

\* The YOLO loader has committed the snapshot it read.
SnapshotLoaded == yolo_pc \in {"close", "exited"} /\ yolo_count # NullInt

\* C9: after a successful load of snapshot S2 the table holds the rows of S2, a row
\* for each of its keys, and no row of the snapshot loaded before.
C9_SnapshotLaw ==
    SnapshotLoaded =>
        /\ \A i \in 1..Len(yolo_rows) :
               \E r \in yolo_table : KeyOf(r) = KeyOf(yolo_rows[i])
        /\ \A r \in yolo_table :
               \E i \in 1..Len(yolo_rows) : DetectionOf(r) = yolo_rows[i]
        /\ \A r \in yolo_before :
               (\A i \in 1..Len(yolo_rows) : KeyOf(yolo_rows[i]) # KeyOf(r)) =>
                   \A q \in yolo_table : KeyOf(q) # KeyOf(r)
        /\ (\A i, j \in 1..Len(yolo_rows) :
                i # j => KeyOf(yolo_rows[i]) # KeyOf(yolo_rows[j])) =>
               Cardinality(yolo_table) = Len(yolo_rows)

C9_Witness ==
    /\ SnapshotLoaded
    /\ yolo_table # {}
    /\ \E r \in yolo_before :
           \A i \in 1..Len(yolo_rows) : KeyOf(yolo_rows[i]) # KeyOf(r)

\* C10: every change of the committed table, the one other sessions read, puts the
\* complete new snapshot in place (or empties the table): a failure after the clear
\* leaves no part of the new snapshot and no mix of old and new rows.
C10_AllOrNothing ==
    [][yolo_table' # yolo_table =>
           (yolo_table' = SnapshotTable(yolo_rows, clock) \/ yolo_table' = {})]_vars

C10_Witness ==
    /\ yolo_pc = "exited"
    /\ yolo_exit = 1
    /\ yolo_next = 2
    /\ Len(yolo_rows) = 2
    /\ yolo_before # {}
    /\ yolo_table = yolo_before

\* C11 (as the code has it): when the reload fails after the clear and before its
\* commit, the detection table is at the contents it had before the invocation.
C11_FailureKeepsPrior ==
    [][(yolo_txn # NoTxn /\ yolo_exit' = 1) => yolo_table' = yolo_before]_vars

\* C11 (as stated): when the reload fails after the clear and before its commit,
\* the detection table is left empty.
C11_FailureLeavesEmpty ==
    [][(yolo_txn # NoTxn /\ yolo_exit' = 1) => yolo_table' = {}]_vars

C11_Witness ==
    /\ yolo_pc = "exited"
    /\ yolo_exit = 1
    /\ yolo_next = 1
    /\ Len(yolo_rows) = 1
    /\ yolo_table # {}
    /\ yolo_table = yolo_before

\* C12: once enrich and enrich-load have both Succeeded in a run, every row of the
\* detection table belongs to an attachment that the enrichment of this run found.
C12_NoStaleRows ==
    (stage_status[4] = "Succeeded" /\ stage_status[5] = "Succeeded") =>
        \A r \in yolo_table :
            \E i \in 1..Len(yolo_results) : KeyOf(r) = KeyOf(yolo_results[i])

\* C13: classify_image returns the category of the 2x2 table on (a detection of
\* class 0, a detection of class 39, 41 or 46): promotional, product_display,
\* lifestyle, other.
C13_CategoryTable ==
    category # NULL =>
        LET has_subject == \E i \in 1..Len(call_detections) :
                               call_detections[i].class = 0
            has_object == \E i \in 1..Len(call_detections) :
                              call_detections[i].class \in {39, 41, 46}
        IN  category = IF has_subject /\ has_object THEN "promotional"
                       ELSE IF has_object THEN "product_display"
                       ELSE IF has_subject THEN "lifestyle"
                       ELSE "other"

C13_Witness ==
    /\ category = "promotional"
    /\ Len(call_detections) = 2
    /\ call_detections[1].class = 46
    /\ call_detections[2].class = 0

\* C14: the confidence map of classify_image has the classes of D as its keys and
\* maps each to the highest confidence among the detections of that class.
C14_MaxConfidence ==
    category # NULL =>
        /\ DOMAIN class_confidences =
               {call_detections[i].class : i \in 1..Len(call_detections)}
        /\ \A i \in 1..Len(call_detections) :
               class_confidences[call_detections[i].class] >=
                   call_detections[i].confidence

\* C15: for no detection classify_image gives other and the empty map, and the
\* result of process_image has top confidence 0.0, no top class and count 0.
C15_EmptyDetections ==
    (category # NULL /\ call_detections = <<>>) =>
        /\ category = "other"
        /\ DOMAIN class_confidences = {}
        /\ result[1].image_category = "other"
        /\ result[1].top_confidence = 0
        /\ result[1].top_detected_class = NULL
        /\ result[1].detected_objects_count = 0

C15_Witness ==
    /\ category = "other"
    /\ call_detections = <<>>
    /\ result # NoResult
    /\ result[1].all_confidences = <<>>

CurrentData ==
    InsertData(datalake[json_files[file_idx]], json_files[file_idx][2], clock + 1)

\* C17 (as the code has it): each batch file is one transaction whatever its number
\* of pages: when a statement of it fails, the table is as it was before the
\* batch, with everything that earlier batches of the invocation committed.
C17_BatchIsOneTransaction ==
    [][(raw_pc = "loop" /\ raw_exit' = 1) => raw_table' = raw_table]_vars

\* C17 (as stated): the pages of a batch are transactions of their own: when a
\* statement fails, the pages before its page stay committed.
C17_PagesAreTransactions ==
    [][(raw_pc = "loop" /\ BatchRaises(CurrentData) /\ raw_exit' = 1) =>
           raw_table' =
               ExecuteBatch(raw_table,
                   SubSeq(CurrentData, 1,
                          page_size * (Len(RanBefore(CurrentData)) \div page_size)))]_vars

C17_Witness ==
    /\ raw_pc = "exited"
    /\ raw_exit = 1
    /\ file_idx = 2
    /\ datalake[json_files[1]] = <<MsgC>>
    /\ datalake[json_files[2]] = <<MsgA, MsgNoId>>
    /\ Cardinality(raw_table) = 1
    /\ \A r \in raw_table : r.message_id = 2

\* C18: when insert_messages fails on a batch file, the batch is rolled back, the
\* loop goes on with the next file, and total_messages is not increased.
C18_ContinuesAfterFailure ==
    [][(raw_pc = "loop" /\ BatchRaises(CurrentData)) =>
           /\ raw_table' = raw_table
           /\ total_messages' = total_messages
           /\ raw_pc' = IF file_idx < Len(json_files) THEN "loop" ELSE "summary"]_vars

\* The message has a message_date that datetime.fromisoformat rejects.
Malformed(msg) ==
    /\ Get(msg, "message_date", NULL) \notin {NULL, ""}
    /\ ~IsIsoFormat(ReplaceZ(msg.message_date))

\* C19: a message with a malformed message_date does not make its batch fail, and
\* once the batch is committed its row has message_date null and every other
\* field as the message gives it.
C19_MalformedDateLoaded ==
    /\ (raw_pc = "loop" /\ ~BatchRaises(CurrentData)) =>
           ~InsertMessages(raw_table, datalake[json_files[file_idx]],
                           json_files[file_idx][2], clock + 1, FALSE).raised
    /\ last_load # NoLoad =>
           LET messages == last_load[1]
               channel_name == last_load[2]
           IN  \A i \in 1..Len(messages) :
                   (/\ Malformed(messages[i])
                    /\ \A j \in (i + 1)..Len(messages) :
                           <<Get(messages[j], "message_id", NullInt),
                             ChannelOf(messages[j], channel_name)>> #
                           <<Get(messages[i], "message_id", NullInt),
                             ChannelOf(messages[i], channel_name)>>)
                   => \E r \in raw_table :
                          /\ r.message_id = messages[i].message_id
                          /\ r.channel_name = ChannelOf(messages[i], channel_name)
                          /\ r.message_date = NULL
                          /\ r.message_text = Get(messages[i], "message_text", NULL)
                          /\ r.has_media = Get(messages[i], "has_media", "false")
                          /\ r.image_path = Get(messages[i], "image_path", NULL)
                          /\ r.views = Get(messages[i], "views", NullInt)
                          /\ r.forwards = Get(messages[i], "forwards", NullInt)

C19_Witness ==
    /\ raw_pc = "summary"
    /\ last_load # NoLoad
    /\ last_load[1] = <<MsgC, MsgB>>
    /\ Cardinality(raw_table) = 2
    /\ \E r \in raw_table : r.message_text = "B" /\ r.message_date = NULL
    /\ \E r \in raw_table : r.message_id = 2 /\ r.message_date # NULL

\* C20: a loader that has exited has no connection open: the one it opened was
\* closed on the way out, whichever way that was.
C20_ConnectionReleased ==
    /\ raw_pc = "exited" => raw_conn # "open"
    /\ yolo_pc = "exited" => yolo_conn # "open"

\* The fields of an event's metadata that hold captured output.
OutputKeys ==
    {"scraper_output", "loader_output", "dbt_output", "yolo_output"}

\* C21: when the auxiliary command of transform (dbt test) or of enrich-load (dbt
\* run --select) exits non-zero, the stage is Succeeded and its materialization
\* event records the failure of that command.
C21_AuxiliaryRecorded ==
    \A s \in {3, 5} :
        (aux_returncode[s] # NullInt /\ aux_returncode[s] # 0) =>
            /\ stage_status[s] = "Succeeded"
            /\ \E i \in 1..Len(events) :
                   /\ events[i].op = s
                   /\ \E k \in DOMAIN events[i].metadata \ (OutputKeys \cup {"status"}) :
                          events[i].metadata[k] = "failed"

\* C22: every captured output in a materialization event is a suffix of what the
\* op's command printed, of at most tail_length characters (all of the output
\* when that is shorter).
C22_OutputTail ==
    \A i \in 1..Len(events) :
        \A k \in DOMAIN events[i].metadata \cap OutputKeys :
            LET value == events[i].metadata[k]
                out == stdout[events[i].op]
            IN  /\ Len(value) <= tail_length
                /\ Len(value) <= Len(out)
                /\ \A j \in 1..Len(value) :
                       value[j] = out[Len(out) - Len(value) + j]
                /\ Len(out) >= tail_length => Len(value) = tail_length

C22_Witness ==
    /\ Len(events) = 5
    /\ Len(stdout[1]) = 0
    /\ Len(stdout[3]) = tail_length
    /\ Len(stdout[4]) > tail_length
    /\ events[4].metadata.yolo_output = <<2, 3>>

\* C23: no batch file is loaded by the raw loader more than once, whatever the
\* number of runs.
C23_LoadedOnce ==
    \A file \in DOMAIN load_count : load_count[file] <= 1

\* The Record and DetectionResult fields that one clean run over FirstLake and
\* the attachments of FirstResults puts into an empty warehouse.
CleanRecords ==
    {RecordOf(r) : r \in InsertMessages({}, <<MsgA, MsgB>>, "chA", 1, FALSE).table}

CleanDetections ==
    {DetectionOf(r) : r \in SnapshotTable([i \in 1..Len(FirstResults) |->
                                             ParseRow(ToCsvRow(FirstResults[i]))], 2)}

\* C24: a run from the top that succeeds on the stored batches and attachments of
\* the run before it, completed or aborted, ends with the rows of one clean run.
C24_RerunEqualsCleanRun ==
    (run_status = "Succeeded" /\ datalake = FirstLake /\ yolo_results = FirstResults) =>
        /\ {RecordOf(r) : r \in raw_table} = CleanRecords
        /\ {DetectionOf(r) : r \in yolo_table} = CleanDetections

\* The file name of the image is a record id: a decimal number.
HasRecordId(image) ==
    /\ image.stem # <<>>
    /\ \A i \in 1..Len(image.stem) :
          image.stem[i] \in {"0", "1", "2", "3", "4", "5", "6", "7", "8", "9"}

\* Those of the loop's first n images that have a record id and whose model call
\* did not raise.
Processed(n) ==
    {i \in 1..n : HasRecordId(detect_images[i]) /\ ~detect_raised[i]}

\* C25: an image whose stem is no number or whose model call raises is skipped:
\* the loop goes on, every other image has its result, in the images' order, and
\* with the loop at its end the process exits 0, unless writing the CSV fails.
C25_SkipsAndContinues ==
    /\ (detect_pc \in {"loop", "save", "exited", "raised"}) =>
          /\ Len(detect_results) = Cardinality(Processed(detect_idx))
          /\ error_count = detect_idx - Cardinality(Processed(detect_idx))
          /\ \A i \in Processed(detect_idx) :
                LET r == detect_results[Cardinality(Processed(i))]
                IN  /\ r.image_path = detect_images[i]
                    /\ r.message_id = DecimalValue(detect_images[i].stem)
                    /\ r.channel_name = detect_images[i].channel
    /\ (detect_pc \in {"save", "exited", "raised"} /\ detect_idx > 0) =>
          detect_idx = Len(detect_images)
    /\ detect_pc = "exited" => detect_exit = 0
    /\ detect_pc = "raised" => detect_results # <<>>
    /\ (detect_pc = "exited" /\ detect_results # <<>>) => detect_csv = <<detect_results>>

\* A run that skipped one image for its name and one for a raising model call,
\* and wrote the result of a third.
C25_Witness ==
    /\ detect_pc = "exited"
    /\ detect_exit = 0
    /\ Len(detect_images) = 3
    /\ error_count = 2
    /\ \E i \in 1..3 : ~HasRecordId(detect_images[i])
    /\ \E i \in 1..3 : detect_raised[i]
    /\ Len(detect_results) = 1
    /\ detect_csv = <<detect_results>>

\* C26: in every result of process_image the category is one of the four, the
\* count is the length of the class id list, and the top confidence is the
\* highest confidence of the detections, 0.0 exactly when there is none.
C26_ResultWellFormed ==
    result # NoResult =>
        LET r == result[1]
            confidences == {call_detections[i].confidence :
                               i \in 1..Len(call_detections)}
        IN  /\ r.image_category \in {"promotional", "product_display", "lifestyle",
                                     "other"}
            /\ r.detected_objects_count = Len(r.detected_classes)
            /\ r.detected_classes = [i \in 1..Len(call_detections) |->
                                        call_detections[i].class]
            /\ confidences # {} =>
                  /\ r.top_confidence \in confidences
                  /\ \A c \in confidences : c <= r.top_confidence
            /\ r.top_confidence = 0 <=> confidences = {}

\* A result for two detections, the second of the higher confidence.
C26_Witness ==
    /\ result # NoResult
    /\ Len(call_detections) = 2
    /\ call_detections[1].confidence < call_detections[2].confidence
    /\ result[1].top_confidence = call_detections[2].confidence
    /\ result[1].detected_objects_count = 2

RECURSIVE SumTo(_, _)
SumTo(f, n) == IF n = 0 THEN 0 ELSE SumTo(f, n - 1) + f[n]

\* C27: every run ends Succeeded or Failed, with at most two attempts of enrich,
\* three of each other stage and 14 in all.
C27_Terminates ==
    /\ [](/\ attempt[4] <= 2
          /\ \A s \in Ops \ {4} : attempt[s] <= 3
          /\ SumTo(attempt, 5) <= 14)
    /\ <>[](run_status \in {"Succeeded", "Failed"})

\* A run that succeeded on the last attempt of every stage: 14 attempts.
C27_Witness ==
    /\ run_status = "Succeeded"
    /\ attempt = <<3, 3, 3, 2, 3>>

\* C28: a materialization event comes from the current attempt of its stage, an
\* attempt whose primary command exited 0; no stage has two events in a run, and
\* the events are in the order of the stages.
C28_EventsOfSuccesses ==
    /\ \A i \in 1..Len(events) :
          /\ primary_exit[events[i].op] = 0
          /\ events[i].attempt = attempt[events[i].op]
          /\ stage_status[events[i].op] = "Succeeded"
          /\ events[i].asset_key = AssetKey[events[i].op]
    /\ \A i, j \in 1..Len(events) : i < j => events[i].op < events[j].op

\* All five stages have their event, raw-load from its third attempt and enrich
\* from its second: the attempts that failed before left none.
C28_Witness ==
    /\ Len(events) = 5
    /\ events[2].op = 2
    /\ events[2].attempt = 3
    /\ events[4].attempt = 2

\* The natural keys of the messages of a batch file, and the Record that the last
\* message of the file with the key k gives.
KeysIn(file) ==
    {KeyOf(InsertTuple(datalake[file][i], file[2], 0)) : i \in 1..Len(datalake[file])}

LastRecordIn(file, k) ==
    LET batch == datalake[file]
        last == CHOOSE i \in 1..Len(batch) :
                    /\ KeyOf(InsertTuple(batch[i], file[2], 0)) = k
                    /\ \A j \in (i + 1)..Len(batch) :
                           KeyOf(InsertTuple(batch[j], file[2], 0)) # k
    IN  RecordOf(InsertTuple(batch[last], file[2], 0))

\* C29: after a run of the raw loader that loaded the batch files of both
\* partition dates, the row of a key that both files hold has the fields of the
\* file of the later date, in whatever order the files were found.
C29_NewestPartitionWins ==
    LET old == <<"2024-01-05", "chA">>
        new == <<"2024-01-06", "chA">>
    IN  (/\ raw_pc = "summary"
         /\ raw_runs = 1
         /\ DOMAIN load_count = {old, new}) =>
            \A k \in KeysIn(old) \cap KeysIn(new) :
                \E r \in raw_table : KeyOf(r) = k /\ RecordOf(r) = LastRecordIn(new, k)

\* C30: after a successful load the table has one row for each key of the snapshot
\* and no other, the row of a key is the last snapshot row with that key, and
\* the count returned is the number of snapshot rows: more than the table has rows
\* when a key occurs twice.
C30_LastRowWins ==
    SnapshotLoaded =>
        /\ \A r1, r2 \in yolo_table : KeyOf(r1) = KeyOf(r2) => r1 = r2
        /\ {KeyOf(r) : r \in yolo_table} =
               {KeyOf(yolo_rows[i]) : i \in 1..Len(yolo_rows)}
        /\ \A i \in 1..Len(yolo_rows) :
               (\A j \in (i + 1)..Len(yolo_rows) :
                    KeyOf(yolo_rows[j]) # KeyOf(yolo_rows[i])) =>
                   \E r \in yolo_table : DetectionOf(r) = yolo_rows[i]
        /\ yolo_count = Len(yolo_rows)
        /\ (\E i, j \in 1..Len(yolo_rows) :
                i # j /\ KeyOf(yolo_rows[i]) = KeyOf(yolo_rows[j])) =>
               yolo_count > Cardinality(yolo_table)

\* The snapshot has 1.jpg and then 1.png of chA: one row, that of 1.png, and a
\* count of 2.
C30_Witness ==
    /\ SnapshotLoaded
    /\ yolo_exit = 0
    /\ Len(yolo_rows) = 2
    /\ yolo_rows[1].image_path = "data/raw/images/chA/1.jpg"
    /\ yolo_rows[2].image_path = "data/raw/images/chA/1.png"
    /\ yolo_count = 2
    /\ Cardinality(yolo_table) = 1
    /\ \A r \in yolo_table : r.image_path = "data/raw/images/chA/1.png"

====
